---- MODULE Spec2Model ----
(***************************************************************************)
(* Model of the two views of drf_boilerplate:                              *)
(*   users/views.py   RegisterView  (generics.CreateAPIView)               *)
(*   tasks/views.py   TaskViewSet   (viewsets.ModelViewSet)                *)
(* The state is the content of the two tables the views work on (users,    *)
(* tasks), the task id sequence, the requests that are between a read and  *)
(* the write that follows it, and the last request answered, together with *)
(* its response.  A handler that only reads, or that writes with one       *)
(* statement, is one action.  destroy reads the row (get_object) and then  *)
(* deletes it (perform_destroy); register validates (is_valid, which reads *)
(* the users) and then inserts (save).  Neither has a transaction around   *)
(* its two statements, so each is two actions other requests run between.  *)
(*                                                                         *)
(* TaskViewSet binds its serializer to the name `serialzer_class`, so the  *)
(* attribute the framework reads, `serializer_class`, keeps its default    *)
(* (None).  Every handler that asks for a serializer therefore fails in    *)
(* get_serializer_class() before it persists or renders anything; destroy  *)
(* is the only task handler that never asks for one.                       *)
(*                                                                         *)
(* The models and serializers of the repository (tasks/models.py,          *)
(* tasks/serializers.py, users/serializers.py) are not part of the source  *)
(* at hand; what the model needs of them is taken from the specification   *)
(* and marked as such.                                                     *)
(***************************************************************************)
EXTENDS Integers, Sequences, FiniteSets, Bags, TLC

VARIABLES users, tasks, taskSeq, pending, registering, resp

vars == <<users, tasks, taskSeq, pending, registering, resp>>

----------------------------------------------------------------------------
(* Bounds of the model.                                                    *)

\* rows of the task table at start-up, and the largest primary key
MaxTasks == 2
\* requests that can be between their two statements at a time
MaxInflight == 2

----------------------------------------------------------------------------
(* Values.                                                                 *)

\* an optional value is a set with no or one element (None / Some(x))
None == {}
Some(x) == {x}

\* request.user of a request without credentials (AnonymousUser)
Anonymous == 0

\* status.HTTP_201_CREATED
HTTP_201_CREATED == 201

\* users present before the first request: ids 1 and 2
InitUsers ==
    << [id |-> 1, username |-> "alice", email |-> "a@x", password |-> <<"hashed", "pw">>],
       [id |-> 2, username |-> "bob", email |-> "", password |-> <<"hashed", "pw">>] >>

UserIds == {users[i].id : i \in 1..Len(users)}

\* who can send a request: nobody in particular, or a registered user
Callers == {Anonymous} \cup UserIds

\* text is a sequence of characters
Lower(c) == IF c = "A" THEN "a" ELSE IF c = "B" THEN "b" ELSE c

\* Django's icontains lookup: case-insensitive substring
IContains(text, term) ==
    \E i \in 0..(Len(text) - Len(term)) :
        \A j \in 1..Len(term) : Lower(text[i + j]) = Lower(term[j])

\* str.replace('\x00', ''): the text without its NUL characters
RECURSIVE StripNul(_)
StripNul(s) ==
    IF s = <<>> THEN <<>>
    ELSE IF Head(s) = "NUL" THEN StripNul(Tail(s))
    ELSE <<Head(s)>> \o StripNul(Tail(s))

\* str.replace(',', ' ')
CommasToBlanks(s) == [i \in 1..Len(s) |-> IF s[i] = "," THEN " " ELSE s[i]]

\* str.split(): the maximal runs of non-blank characters
RECURSIVE SplitFrom(_, _, _)
SplitFrom(s, i, cur) ==
    IF i > Len(s)
    THEN IF cur = <<>> THEN <<>> ELSE <<cur>>
    ELSE IF s[i] = " "
         THEN (IF cur = <<>> THEN <<>> ELSE <<cur>>) \o SplitFrom(s, i + 1, <<>>)
         ELSE SplitFrom(s, i + 1, Append(cur, s[i]))

\* SearchFilter.get_search_terms
get_search_terms(q) == SplitFrom(CommasToBlanks(StripNul(q.search)), 1, <<>>)

\* the rows a start-up table can hold under primary key i
FixtureTitle(i) == IF i % 2 = 1 THEN <<"a", "B">> ELSE <<"b">>
FixtureDescription(i) == IF i % 2 = 1 THEN <<>> ELSE <<"A", " ", "b">>
FixtureDue(i) == IF i % 2 = 1 THEN Some("2024-01-01") ELSE None

FixtureCompleted(i) == i % 2 = 1

FixtureOwner(i) == IF i % 2 = 1 THEN 1 ELSE 2

FixtureRows(i) ==
    { [id |-> i, user |-> FixtureOwner(i), title |-> FixtureTitle(i),
       description |-> FixtureDescription(i), due_date |-> FixtureDue(i),
       completed |-> FixtureCompleted(i)] }

\* query parameters of a request to the task endpoints: completed as the
\* boolean the filter form reads it as (None: not given), due_date as the
\* text sent ("": not given), search as the text sent
NoQuery == [completed |-> None, due_date |-> "", search |-> <<>>]

\* of a list request
Queries ==
    { NoQuery,
      [completed |-> Some(TRUE), due_date |-> "", search |-> <<>>],
      [completed |-> Some(TRUE), due_date |-> "", search |-> <<"b">>],
      [completed |-> None, due_date |-> "2024-01-01",
       search |-> <<"a", ",", " ", "NUL", "B">>],
      [completed |-> None, due_date |-> "notadate", search |-> <<>>] }

\* of a request to /tasks/{id}
DetailQueries ==
    { NoQuery, [completed |-> None, due_date |-> "notadate", search |-> <<>>] }

\* the texts the date field of the filter form accepts as a date
DateTexts == {"2024-01-01", "2024-01-02"}

\* request bodies of create and update; user is a spoofed owner field
TaskData ==
    { [title |-> <<"a", "B">>, description |-> <<"b">>, due_date |-> None, user |-> Some(2)],
      [title |-> <<>>, description |-> <<"b">>, due_date |-> None, user |-> None] }

\* request bodies of register
RegisterData ==
    { [username |-> "carol", email |-> "c@x", password |-> "pw"],
      [username |-> "carol", email |-> "c@x", password |-> ""],
      [username |-> "alice", email |-> "c@x", password |-> "pw"],
      [username |-> "", email |-> "c@x", password |-> "pw"] }

\* who sends the register requests: the view reads nothing of the caller
RegisterCallers == {Anonymous, 1}

NoData == <<>>

----------------------------------------------------------------------------
(* Responses.                                                              *)

Response(op, c, pk, q, data, status, body) ==
    [op |-> op, caller |-> c, pk |-> pk, query |-> q, data |-> data,
     status |-> status, body |-> body]

NotFoundBody == [detail |-> "Not found."]
NotAuthenticatedBody == [detail |-> "Authentication credentials were not provided."]
ServerErrorBody == [detail |-> "AssertionError"]
NoContentBody == [detail |-> ""]
IntegrityErrorBody == [detail |-> "IntegrityError"]

----------------------------------------------------------------------------
(* users/serializers.py, from the specification.                           *)

make_password(p) == <<"hashed", p>>

UserSerializer_errors(data) ==
    {f \in {"username", "password"} :
        \/ f = "username" /\ data.username = ""
        \/ f = "username" /\ \E i \in 1..Len(users) : users[i].username = data.username
        \/ f = "password" /\ data.password = ""}

UserSerializer_is_valid(data) == UserSerializer_errors(data) = {}

\* the unique constraint of the username column, checked by the insert
User_unique_violated(data) ==
    \E i \in 1..Len(users) : users[i].username = data.username

UserSerializer_save(data) ==
    [id |-> Len(users) + 1, username |-> data.username, email |-> data.email,
     password |-> make_password(data.password)]

----------------------------------------------------------------------------
(* users/views.py                                                          *)

\* permissions.AllowAny
AllowAny(c) == TRUE

RegisterResponseBody_WithPassword(user) ==
    [id |-> user.id, username |-> user.username, email |-> user.email,
     password |-> user.password]

RegisterResponseBody(user) ==
    [id |-> user.id, username |-> user.username, email |-> user.email]

\* the requests between their read and their write
Inflight == BagCardinality(pending) + BagCardinality(registering)

\* serializer.save() moved in front of serializer.is_valid(raise_exception=True)
RegisterPost_SaveFirst(c, data) ==
    LET user == UserSerializer_save(data) IN
    /\ users' = Append(users, user)
    /\ IF UserSerializer_is_valid(data)
       THEN resp' = Response("register", c, 0, NoQuery, data, HTTP_201_CREATED,
                             RegisterResponseBody(user))
       ELSE resp' = Response("register", c, 0, NoQuery, data, 400,
                             [f \in UserSerializer_errors(data) |-> "invalid"])
    /\ UNCHANGED <<tasks, taskSeq, pending, registering>>

\* RegisterView.post up to the return of is_valid(raise_exception=True): the
\* request is answered 400 at once when validation fails, and otherwise goes
\* on to save()
RegisterPost(c, data) ==
    IF ~AllowAny(c)
    THEN /\ resp' = Response("register", c, 0, NoQuery, data, 403, NotAuthenticatedBody)
         /\ UNCHANGED <<users, tasks, taskSeq, pending, registering>>
    ELSE IF ~UserSerializer_is_valid(data)
    THEN /\ resp' = Response("register", c, 0, NoQuery, data, 400,
                             [f \in UserSerializer_errors(data) |-> "invalid"])
         /\ UNCHANGED <<users, tasks, taskSeq, pending, registering>>
    ELSE /\ Inflight < MaxInflight
         /\ registering' = registering (+) SetToBag({[caller |-> c, data |-> data]})
         /\ UNCHANGED <<users, tasks, taskSeq, pending, resp>>

\* RegisterView.post from serializer.save() on: the insert, and the 201 with
\* the public fields; an insert the unique constraint refuses raises
\* IntegrityError, which nothing catches (500, no row)
RegisterSave(r) ==
    /\ registering' = registering (-) SetToBag({r})
    /\ IF User_unique_violated(r.data)
       THEN /\ resp' = Response("register", r.caller, 0, NoQuery, r.data, 500,
                                IntegrityErrorBody)
            /\ UNCHANGED users
       ELSE LET user == UserSerializer_save(r.data) IN
            /\ users' = Append(users, user)
            /\ resp' = Response("register", r.caller, 0, NoQuery, r.data,
                                HTTP_201_CREATED, RegisterResponseBody(user))
    /\ UNCHANGED <<tasks, taskSeq, pending>>

Register == \E c \in RegisterCallers, data \in RegisterData : RegisterPost(c, data)

RegisterDone == \E r \in BagToSet(registering) : RegisterSave(r)

----------------------------------------------------------------------------
(* tasks/serializers.py and tasks/models.py, from the specification.       *)

\* title is required; every other field is optional
TaskSerializer_is_valid(data) == data.title # <<>>

\* the owner is not a writable field of the serializer
TaskSerializer_validated(data) ==
    [title |-> data.title, description |-> data.description, due_date |-> data.due_date]

TaskSerializer_data(t) ==
    [id |-> t.id, title |-> t.title, description |-> t.description,
     due_date |-> t.due_date, completed |-> t.completed]

\* Task.objects.create: next key of the sequence, completed defaults to False
Task_create(validated, user) ==
    [id |-> taskSeq + 1, user |-> user, title |-> validated.title,
     description |-> validated.description, due_date |-> validated.due_date,
     completed |-> FALSE]

----------------------------------------------------------------------------
(* tasks/views.py                                                          *)

\* permissions.IsAuthenticated.has_permission
IsAuthenticated(c) == c # Anonymous

\* IsOwnerPermission.has_object_permission: defers to BasePermission, which
\* grants every object
has_object_permission(c, obj) == TRUE

\* the attribute GenericAPIView.get_serializer_class() reads; the class body
\* sets `serialzer_class`, so this one keeps the framework default
serializer_class == None

\* permission_classes without IsAuthenticated
check_permissions_Open(c) == TRUE

\* APIView.check_permissions over permission_classes
check_permissions(c) == IsAuthenticated(c)

\* Task.objects.all() instead of the caller's rows
get_queryset_All(c) == tasks

\* TaskViewSet.get_queryset
get_queryset(c) == {t \in tasks : t.user = c}

\* the errors of the filter form of DjangoFilterBackend: a due_date that is
\* given and is no date (the backend then raises ValidationError)
filterset_errors(q) ==
    {f \in {"due_date"} : q.due_date # "" /\ q.due_date \notin DateTexts}

\* DjangoFilterBackend with filterset_fields = ['completed', 'due_date'],
\* for a query whose filter form is valid
DjangoFilterBackend(qs, q) ==
    {t \in qs : /\ \A v \in q.completed : t.completed = v
                /\ q.due_date # "" => t.due_date = Some(q.due_date)}

\* SearchFilter with search_fields = ['title', 'description']
SearchFilter(qs, q) ==
    LET terms == get_search_terms(q) IN
    {t \in qs : \A k \in 1..Len(terms) :
                   \/ IContains(t.title, terms[k])
                   \/ IContains(t.description, terms[k])}

\* GenericAPIView.filter_queryset over filter_backends
filter_queryset(qs, q) == SearchFilter(DjangoFilterBackend(qs, q), q)

\* the lookup done on the whole table, ownership left to the permission hook
get_object_Unscoped(c, pk, q) ==
    {t \in filter_queryset(tasks, q) : t.id = pk /\ has_object_permission(c, t)}

\* GenericAPIView.get_object: the rows of the filtered, scoped queryset with
\* this primary key that pass the object permission (none: Http404)
get_object(c, pk, q) ==
    {t \in filter_queryset(get_queryset(c), q) : t.id = pk /\ has_object_permission(c, t)}

\* TaskViewSet.perform_create
perform_create(c, validated) == Task_create(validated, c)

\* the response of a request that fails check_permissions: 401 or 403,
\* by the authentication classes of the settings
Rejected(op, c, pk, q, data) ==
    /\ \E st \in {401, 403} :
         resp' = Response(op, c, pk, q, data, st, NotAuthenticatedBody)
    /\ UNCHANGED <<users, tasks, taskSeq, pending, registering>>

\* a handler that raises in get_serializer_class()
ServerError(op, c, pk, q, data) ==
    /\ resp' = Response(op, c, pk, q, data, 500, ServerErrorBody)
    /\ UNCHANGED <<users, tasks, taskSeq, pending, registering>>

\* a handler whose filter_queryset raises ValidationError
BadRequest(op, c, pk, q, data) ==
    /\ resp' = Response(op, c, pk, q, data, 400,
                        [f \in filterset_errors(q) |-> "Enter a valid date."])
    /\ UNCHANGED <<users, tasks, taskSeq, pending, registering>>

NotFound(op, c, pk, q, data) ==
    /\ resp' = Response(op, c, pk, q, data, 404, NotFoundBody)
    /\ UNCHANGED <<users, tasks, taskSeq, pending, registering>>

\* ListModelMixin.list
TaskList(c, q) ==
    IF ~check_permissions(c) THEN Rejected("list", c, 0, q, NoData)
    ELSE IF filterset_errors(q) # {} THEN BadRequest("list", c, 0, q, NoData)
    ELSE LET queryset == filter_queryset(get_queryset(c), q) IN
         IF serializer_class = None THEN ServerError("list", c, 0, q, NoData)
         ELSE /\ resp' = Response("list", c, 0, q, NoData, 200,
                            [results |-> {TaskSerializer_data(t) : t \in queryset}])
              /\ UNCHANGED <<users, tasks, taskSeq, pending, registering>>

\* RetrieveModelMixin.retrieve, for a caller that passed check_permissions:
\* the response as a function of the table (primary keys are unique)
retrieve(c, pk, q) ==
    LET found == get_object(c, pk, q) IN
    IF filterset_errors(q) # {}
    THEN Response("retrieve", c, pk, q, NoData, 400,
                  [f \in filterset_errors(q) |-> "Enter a valid date."])
    ELSE IF found = {} THEN Response("retrieve", c, pk, q, NoData, 404, NotFoundBody)
    ELSE IF serializer_class = None
    THEN Response("retrieve", c, pk, q, NoData, 500, ServerErrorBody)
    ELSE Response("retrieve", c, pk, q, NoData, 200,
                  TaskSerializer_data(CHOOSE t \in found : TRUE))

TaskRetrieve(c, pk, q) ==
    IF ~check_permissions(c) THEN Rejected("retrieve", c, pk, q, NoData)
    ELSE /\ resp' = retrieve(c, pk, q)
         /\ UNCHANGED <<users, tasks, taskSeq, pending, registering>>

\* CreateModelMixin.create
TaskCreate(c, data) ==
    IF ~check_permissions(c) THEN Rejected("create", c, 0, NoQuery, data)
    ELSE IF serializer_class = None THEN ServerError("create", c, 0, NoQuery, data)
    ELSE IF ~TaskSerializer_is_valid(data)
    THEN /\ resp' = Response("create", c, 0, NoQuery, data, 400, [title |-> "invalid"])
         /\ UNCHANGED <<users, tasks, taskSeq, pending, registering>>
    ELSE LET t == perform_create(c, TaskSerializer_validated(data)) IN
         /\ tasks' = tasks \cup {t}
         /\ taskSeq' = taskSeq + 1
         /\ resp' = Response("create", c, 0, NoQuery, data, HTTP_201_CREATED,
                             TaskSerializer_data(t))
         /\ UNCHANGED <<users, pending, registering>>

\* the request body written to the row as it is, owner field included
TaskUpdate_RawSave(c, pk, q, data) ==
    IF ~check_permissions(c) THEN Rejected("update", c, pk, q, data)
    ELSE IF filterset_errors(q) # {} THEN BadRequest("update", c, pk, q, data)
    ELSE LET found == get_object(c, pk, q) IN
         IF found = {} THEN NotFound("update", c, pk, q, data)
         ELSE \E t \in found :
                LET u == [t EXCEPT !.title = data.title,
                                   !.user = IF data.user = None THEN t.user
                                            ELSE CHOOSE x \in data.user : TRUE]
                IN /\ tasks' = (tasks \ {t}) \cup {u}
                   /\ resp' = Response("update", c, pk, q, data, 200, TaskSerializer_data(u))
                   /\ UNCHANGED <<users, taskSeq, pending, registering>>

\* UpdateModelMixin.update
TaskUpdate(c, pk, q, data) ==
    IF ~check_permissions(c) THEN Rejected("update", c, pk, q, data)
    ELSE IF filterset_errors(q) # {} THEN BadRequest("update", c, pk, q, data)
    ELSE LET found == get_object(c, pk, q) IN
         IF found = {} THEN NotFound("update", c, pk, q, data)
         ELSE IF serializer_class = None THEN ServerError("update", c, pk, q, data)
         ELSE IF ~TaskSerializer_is_valid(data)
         THEN /\ resp' = Response("update", c, pk, q, data, 400, [title |-> "invalid"])
              /\ UNCHANGED <<users, tasks, taskSeq, pending, registering>>
         ELSE \E t \in found :
                LET v == TaskSerializer_validated(data)
                    u == [t EXCEPT !.title = v.title, !.description = v.description,
                                   !.due_date = v.due_date]
                IN /\ tasks' = (tasks \ {t}) \cup {u}
                   /\ resp' = Response("update", c, pk, q, data, 200, TaskSerializer_data(u))
                   /\ UNCHANGED <<users, taskSeq, pending, registering>>

\* DestroyModelMixin.destroy up to the return of get_object: the request is
\* answered at once when the lookup raises, and otherwise holds the instance
\* it fetched until perform_destroy runs
TaskDestroy(c, pk, q) ==
    IF ~check_permissions(c) THEN Rejected("delete", c, pk, q, NoData)
    ELSE IF filterset_errors(q) # {} THEN BadRequest("delete", c, pk, q, NoData)
    ELSE LET found == get_object(c, pk, q) IN
         IF found = {} THEN NotFound("delete", c, pk, q, NoData)
         ELSE /\ Inflight < MaxInflight
              /\ \E t \in found :
                   pending' = pending (+) SetToBag({[caller |-> c, pk |-> pk, query |-> q,
                                                    instance |-> t]})
              /\ UNCHANGED <<users, tasks, taskSeq, registering, resp>>

\* DestroyModelMixin.perform_destroy and the 204 of destroy: instance.delete()
\* deletes the rows with the instance's primary key, none if it is gone
perform_destroy(r) ==
    /\ tasks' = {t \in tasks : t.id # r.instance.id}
    /\ pending' = pending (-) SetToBag({r})
    /\ resp' = Response("delete", r.caller, r.pk, r.query, NoData, 204, NoContentBody)
    /\ UNCHANGED <<users, taskSeq, registering>>

\* primary keys a request can name: every key handed out so far and one more
Pks == 1..(taskSeq + 1)

List == \E c \in Callers, q \in Queries : TaskList(c, q)

Retrieve == \E c \in Callers, pk \in Pks, q \in DetailQueries : TaskRetrieve(c, pk, q)

Create == \E c \in Callers, data \in TaskData : TaskCreate(c, data)

Update == \E c \in Callers, pk \in Pks, q \in DetailQueries, data \in TaskData :
             TaskUpdate(c, pk, q, data)

Destroy == \E c \in Callers, pk \in Pks, q \in DetailQueries : TaskDestroy(c, pk, q)

DestroyDone == \E r \in BagToSet(pending) : perform_destroy(r)

----------------------------------------------------------------------------
Init ==
    /\ users = InitUsers
    /\ \E present \in SUBSET (1..MaxTasks) :
         \E row \in [present -> UNION {FixtureRows(i) : i \in 1..MaxTasks}] :
            /\ \A i \in present : row[i].id = i
            /\ tasks = {row[i] : i \in present}
    /\ taskSeq = MaxTasks
    /\ pending = EmptyBag
    /\ registering = EmptyBag
    /\ resp = Response("none", Anonymous, 0, NoQuery, NoData, 0, NoContentBody)

Next == Register \/ RegisterDone \/ List \/ Retrieve \/ Create \/ Update \/ Destroy \/ DestroyDone

Spec == Init /\ [][Next]_vars

----------------------------------------------------------------------------
(* Properties.                                                             *)

TaskOps == {"list", "retrieve", "create", "update", "delete"}

TaskIdsOf(ts) == {t.id : t \in ts}

\* the step answers a request: every step does, except the one that leaves
\* a request between its read and its write
Responds ==
    /\ BagCardinality(pending') <= BagCardinality(pending)
    /\ BagCardinality(registering') <= BagCardinality(registering)

\* the primary keys of the tasks a response carries
Returned(r) ==
    IF r.op = "list" /\ r.status = 200 THEN {x.id : x \in r.body.results}
    ELSE IF r.op \in {"retrieve", "update", "create"} /\ r.status \in {200, 201}
         THEN {r.body.id}
         ELSE {}

Owns(c, pk) == \E t \in tasks : t.id = pk /\ t.user = c

OwnedByOther(c, pk) == \E t \in tasks : t.id = pk /\ t.user # c

\* C1: a request of any caller neither returns, changes nor removes a task
\* owned by another user, and a step that answers no request changes no task.
C1_OwnershipIsolation ==
    [][/\ ~Responds => tasks' = tasks
       /\ \A t \in tasks :
             (Responds /\ t.user # resp'.caller)
             => t \in tasks' /\ t.id \notin Returned(resp')]_vars

C1_Witness ==
    /\ resp.op = "delete" /\ resp.caller \in UserIds /\ resp.status = 404
    /\ \E t \in tasks : t.id = resp.pk /\ t.user # resp.caller

\* C2 as stated: retrieve, update and delete by an authenticated caller of
\* an id that exists under another owner answer 404 with the NotFound body.
C2_NonOwnedIsNotFound ==
    [][(/\ Responds
        /\ resp'.op \in {"retrieve", "update", "delete"}
        /\ resp'.caller # Anonymous
        /\ OwnedByOther(resp'.caller, resp'.pk))
       => resp'.status = 404 /\ resp'.body = NotFoundBody]_vars

\* C2 as amended: for retrieve, update and delete by an authenticated
\* caller, an id that exists under another owner and an id that does not
\* exist get the same answer, which depends on the query parameters alone:
\* 404 NotFound when they are well-formed, 400 with the filter's field
\* errors when they are not; never 403.
C2_NonOwnedAsAbsent ==
    [][(/\ Responds
        /\ resp'.op \in {"retrieve", "update", "delete"}
        /\ resp'.caller # Anonymous
        /\ \/ OwnedByOther(resp'.caller, resp'.pk)
           \/ resp'.pk \notin TaskIdsOf(tasks) /\ pending' = pending)
       => IF filterset_errors(resp'.query) = {}
          THEN resp'.status = 404 /\ resp'.body = NotFoundBody
          ELSE resp'.status = 400 /\ DOMAIN resp'.body = filterset_errors(resp'.query)]_vars

C2_Witness ==
    /\ resp.op = "retrieve" /\ resp.caller \in UserIds
    /\ resp.status = 404 /\ resp.body = NotFoundBody
    /\ \E t \in tasks : t.id = resp.pk /\ t.user # resp.caller

\* C3: create by an authenticated caller with valid fields, whatever owner
\* field they carry, persists a task owned by the caller.
C3_CreateOwnedByCaller ==
    (resp.op = "create" /\ resp.caller \in UserIds /\ TaskSerializer_is_valid(resp.data))
    => /\ resp.status = HTTP_201_CREATED
       /\ \E t \in tasks : t.id = resp.body.id /\ t.user = resp.caller

\* C4: no response of register to a request that passed validation has a
\* password field; a successful one is 201 with exactly the fields id,
\* username and email of the created user.
C4_RegisterResponse ==
    resp.op = "register"
    => /\ resp.status # 400 => "password" \notin DOMAIN resp.body
       /\ resp.status = HTTP_201_CREATED
          => /\ DOMAIN resp.body = {"id", "username", "email"}
             /\ \E i \in 1..Len(users) :
                   /\ users[i].id = resp.body.id
                   /\ users[i].username = resp.body.username
                   /\ users[i].email = resp.body.email
             /\ resp.body.username = resp.data.username
             /\ resp.body.email = resp.data.email

C4_Witness ==
    /\ resp.op = "register" /\ resp.status = HTTP_201_CREATED
    /\ resp.data.password # "" /\ resp.body.username = "carol"

\* C5: a register request answered 201 appends exactly one user, the one of
\* the request; one answered 400 carries a field error mapping; and a
\* register request answered anything but 201, like a step that answers no
\* request, leaves the users as they were.
C5_RegisterAllOrNothing ==
    [][/\ ~Responds => users' = users
       /\ (Responds /\ resp'.op = "register")
          => /\ resp'.status = HTTP_201_CREATED
                => /\ Len(users') = Len(users) + 1
                   /\ SubSeq(users', 1, Len(users)) = users
                   /\ users'[Len(users')].username = resp'.data.username
             /\ resp'.status = 400 => DOMAIN resp'.body # {}
             /\ resp'.status # HTTP_201_CREATED => users' = users]_vars

C5_Witness ==
    /\ resp.op = "register" /\ resp.status = 400
    /\ resp.data.username = "carol" /\ resp.data.password = "pw"
    /\ Len(users) = Len(InitUsers) + 1

\* C6: create with valid fields F succeeds, and a retrieve of the created
\* id by the same caller right after it returns F, with completed false.
C6_CreateRetrieveRoundTrip ==
    (resp.op = "create" /\ resp.caller \in UserIds /\ TaskSerializer_is_valid(resp.data))
    => /\ resp.status = HTTP_201_CREATED
       /\ LET r == retrieve(resp.caller, resp.body.id, NoQuery) IN
          /\ r.status = 200
          /\ r.body.title = resp.data.title
          /\ r.body.description = resp.data.description
          /\ r.body.due_date = resp.data.due_date
          /\ r.body.completed = FALSE

\* C7: a delete (of an authenticated caller, with well-formed query
\* parameters) that is answered while no task with that id is owned by the
\* caller answers 404 and removes nothing; so a delete answers 204 only
\* when it removes a row, and never twice for one id.
C7_DeleteNeverTwice ==
    [][(/\ Responds
        /\ resp'.op = "delete"
        /\ resp'.caller # Anonymous
        /\ filterset_errors(resp'.query) = {}
        /\ ~Owns(resp'.caller, resp'.pk))
       => resp'.status = 404 /\ tasks' = tasks]_vars

\* C8: list by an authenticated caller with well-formed filters answers 200
\* with exactly the caller's tasks that pass the completed / due_date
\* filters and match every search term in title or description.
C8_ListFiltering ==
    (resp.op = "list" /\ resp.caller \in UserIds /\ filterset_errors(resp.query) = {})
    => /\ resp.status = 200
       /\ {x.id : x \in resp.body.results}
             = TaskIdsOf(filter_queryset(get_queryset(resp.caller), resp.query))

\* C9: a task request without an authenticated caller is rejected (401 or
\* 403) and changes nothing; register is not rejected for lack of
\* authentication.
C9_AccessControl ==
    [][/\ (Responds /\ resp'.op \in TaskOps /\ resp'.caller = Anonymous)
          => /\ resp'.status \in {401, 403}
             /\ tasks' = tasks /\ users' = users /\ taskSeq' = taskSeq
             /\ pending' = pending /\ registering' = registering
       /\ (Responds /\ resp'.op = "register" /\ resp'.caller = Anonymous)
          => resp'.status \notin {401, 403}]_vars

C9_Witness ==
    /\ resp.op = "delete" /\ resp.caller = Anonymous /\ resp.status \in {401, 403}
    /\ resp.pk \in TaskIdsOf(tasks)

\* C10: no step changes the owner of a task; an update changes no user, no
\* task other than the one named, and neither the id nor the owner of that.
C10_OwnerImmutableUpdateFrame ==
    [][/\ \A t \in tasks : \A u \in tasks' : t.id = u.id => t.user = u.user
       /\ (Responds /\ resp'.op = "update")
          => /\ users' = users
             /\ TaskIdsOf(tasks') = TaskIdsOf(tasks)
             /\ \A t \in tasks : t.id # resp'.pk => t \in tasks']_vars

C10_Witness ==
    /\ resp.op = "update" /\ resp.caller \in UserIds
    /\ Owns(resp.caller, resp.pk)
    /\ resp.data.user # None /\ resp.data.user # Some(resp.caller)
    /\ TaskSerializer_is_valid(resp.data)
====
